---- MODULE Spec2Model ----
(***************************************************************************)
(* Model of the gittag package: thin wrappers around `git tag` and         *)
(* `git push origin`.  The repository (the local tags, the tags on the      *)
(* remote "origin") is the state; every exported function is               *)
(* one action.  An external invocation exits non-zero when git itself      *)
(* refuses the request in the current repository state, or when the        *)
(* process fails for a reason outside the repository (the set F of         *)
(* invocation ordinals of a call that fail that way).                      *)
(***************************************************************************)
EXTENDS Integers, Sequences, FiniteSets, TLC

\* ------------------------------------------------------------------ bounds

\* at most this many invocations of one call fail for outside reasons
MaxFaults == 1
\* longest variadic message list a caller passes
MaxMessages == 2

\* ------------------------------------------------------------ text values
\* Strings are sequences of one-character strings.

v100 == <<"v", "1", ".", "0", ".", "0">>
v110 == <<"v", "1", ".", "1", ".", "0">>
v200 == <<"v", "2", ".", "0", ".", "0">>

\* the tag names callers use, all of them names git accepts as a ref
TagNames == {v100, v110, v200}
\* patterns a caller looks up: exact names and globs
Patterns == TagNames \cup {<<"v", "1", ".", "*">>, <<"v", "2", ".", "*">>}
\* patterns a caller deletes by
BulkPatterns == {<<"v", "1", ".", "*">>, <<"*">>}

\* the texts of a first message: none, or one
Msg == <<"m">>
MessageTexts == {<<>>, Msg}
\* the text of every further message
MoreMsg == <<"n">>

NL == "\n"
WhiteSpace == {" ", "\t", "\r", NL}

\* byte order of the characters that occur in tag names
CharCode(c) == CASE c = "*" -> 42 [] c = "." -> 46 [] c = "0" -> 48
                 [] c = "1" -> 49 [] c = "2" -> 50 [] c = "v" -> 118
                 [] c = "x" -> 120 [] OTHER -> 0

RECURSIVE StrLess(_, _)
StrLess(a, b) ==
    IF b = <<>> THEN FALSE
    ELSE IF a = <<>> THEN TRUE
    ELSE IF Head(a) = Head(b) THEN StrLess(Tail(a), Tail(b))
    ELSE CharCode(Head(a)) < CharCode(Head(b))

\* strings.TrimSpace
RECURSIVE TrimLeft(_)
TrimLeft(s) ==
    IF s # <<>> /\ Head(s) \in WhiteSpace THEN TrimLeft(Tail(s)) ELSE s

RECURSIVE TrimRight(_)
TrimRight(s) ==
    IF s # <<>> /\ s[Len(s)] \in WhiteSpace
    THEN TrimRight(SubSeq(s, 1, Len(s) - 1)) ELSE s

TrimSpace(s) == TrimRight(TrimLeft(s))

\* strings.Split(s, "\n"): always at least one piece, <<"">> for the empty string
RECURSIVE SplitFrom(_, _)
SplitFrom(s, cur) ==
    IF s = <<>> THEN <<cur>>
    ELSE IF Head(s) = NL THEN <<cur>> \o SplitFrom(Tail(s), <<>>)
    ELSE SplitFrom(Tail(s), Append(cur, Head(s)))

Split(s) == SplitFrom(s, <<>>)

\* tags := strings.Split(strings.TrimSpace(string(output)), "\n")
ParseTags(output) == Split(TrimSpace(output))

\* len(tags) == 0 || (len(tags) == 1 && tags[0] == "")
NoTags(tags) == Len(tags) = 0 \/ (Len(tags) = 1 /\ tags[1] = <<>>)

\* --------------------------------------------------------------- git
\* What the external executable does with each argument template.

\* glob match of `git tag -l <pattern>`
RECURSIVE Glob(_, _)
Glob(p, s) ==
    IF p = <<>> THEN s = <<>>
    ELSE IF Head(p) = "*"
         THEN Glob(Tail(p), s) \/ (s # <<>> /\ Glob(p, Tail(s)))
    ELSE IF Head(p) = "?"
         THEN s # <<>> /\ Glob(Tail(p), Tail(s))
    ELSE s # <<>> /\ Head(s) = Head(p) /\ Glob(Tail(p), Tail(s))

\* the names of set S in git's listing order (by refname)
RECURSIVE Sorted(_)
Sorted(S) ==
    IF S = {} THEN <<>>
    ELSE LET m == CHOOSE x \in S : \A y \in S \ {x} : StrLess(x, y)
         IN <<m>> \o Sorted(S \ {m})

\* one name per line
RECURSIVE Lines(_)
Lines(names) ==
    IF names = <<>> THEN <<>>
    ELSE Head(names) \o <<NL>> \o Lines(Tail(names))

NoMsg == <<>>
\* one external invocation: the argument template, its arguments, the exit
\* status, and whether the process failed for a reason outside the repository
Inv(cmd, arg, msg, exit, fault) ==
    [cmd |-> cmd, arg |-> arg, msg |-> msg, exit |-> exit, fault |-> fault]

\* s = [local, remote, log]: the repository and the invocations made so far
\* by the running call; the next invocation is number Len(s.log) + 1.
Faulted(s, F) == (Len(s.log) + 1) \in F

Has(s, name) == name \in s.local

\* git tag -a <name> -m <message>
GitTagAnnotate(s, name, msg, F) ==
    LET ok == ~Faulted(s, F) /\ ~Has(s, name)
        exit == IF ok THEN 0 ELSE 1
    IN [local  |-> IF ok THEN s.local \cup {name} ELSE s.local,
        remote |-> s.remote,
        log    |-> Append(s.log, Inv("tag -a", name, msg, exit, Faulted(s, F)))]

\* git push origin <name>
GitPush(s, name, F) ==
    LET ok == ~Faulted(s, F) /\ Has(s, name)
        exit == IF ok THEN 0 ELSE 1
    IN [local  |-> s.local,
        remote |-> IF ok THEN s.remote \cup {name} ELSE s.remote,
        log    |-> Append(s.log, Inv("push", name, NoMsg, exit, Faulted(s, F)))]

\* git tag -d <name>
GitTagDelete(s, name, F) ==
    LET ok == ~Faulted(s, F) /\ Has(s, name)
        exit == IF ok THEN 0 ELSE 1
    IN [local  |-> IF ok THEN s.local \ {name} ELSE s.local,
        remote |-> s.remote,
        log    |-> Append(s.log, Inv("tag -d", name, NoMsg, exit, Faulted(s, F)))]

\* git push origin --delete <name>
GitPushDelete(s, name, F) ==
    LET ok == ~Faulted(s, F) /\ name \in s.remote
        exit == IF ok THEN 0 ELSE 1
    IN [local  |-> s.local,
        remote |-> IF ok THEN s.remote \ {name} ELSE s.remote,
        log    |-> Append(s.log, Inv("push --delete", name, NoMsg, exit, Faulted(s, F)))]

\* git tag -l <pattern>: the state after it, and its standard output
GitTagList(s, pattern, F) ==
    [local  |-> s.local,
     remote |-> s.remote,
     log    |-> Append(s.log, Inv("tag -l", pattern, NoMsg,
                                  IF Faulted(s, F) THEN 1 ELSE 0,
                                  Faulted(s, F)))]

GitTagListOutput(s, pattern) ==
    Lines(Sorted({n \in s.local : Glob(pattern, n)}))

\* exit status of the invocation a step has just made
Exit(s) == s.log[Len(s.log)].exit

\* ------------------------------------------------------------- errors
\* The texts are the English of the messages the package formats.

Nil == [kind |-> "nil", text |-> "", tag |-> <<>>, cause |-> ""]
\* fmt.Errorf("<text>: %v", err) around a process failure
Err(kind, text) == [kind |-> kind, text |-> text, tag |-> <<>>, cause |-> ""]
\* fmt.Errorf("<text> %s ...: %v", tag, err) around an element's error
Wrap(text, tag, e) ==
    [kind |-> "WrappedBulkError", text |-> text, tag |-> tag, cause |-> e.kind]

\* the result of a call: the repository after it, the invocations it made,
\* the error it returns and the value it returns (<<>> when it returns none)
Ret(s, err, out) ==
    [local |-> s.local, remote |-> s.remote, log |-> s.log, err |-> err, out |-> out]

\* --------------------------------------------------------- the package

\* a CreateLocal that defaults to the "Release <tagName>" of its doc comment
TagMessageRelease(tagName, message) ==
    IF Len(message) > 0 /\ message[1] # <<>>
    THEN message[1]
    ELSE <<"R", "e", "l", "e", "a", "s", "e", " ">> \o tagName

\* tagMessage of CreateLocal
TagMessage(tagName, message) ==
    IF Len(message) > 0 /\ message[1] # <<>>
    THEN message[1]
    ELSE <<"c", "h", "o", "r", "e", "(", "r", "e", "l", "e", "a", "s", "e",
           ")", ":", " ">> \o tagName

CreateLocal(s, tagName, message, F) ==
    LET s1 == GitTagAnnotate(s, tagName, TagMessage(tagName, message), F)
    IN IF Exit(s1) # 0
       THEN Ret(s1, Err("CreationError", "create local tag failed"), <<>>)
       ELSE Ret(s1, Nil, <<>>)

CreateRemote(s, tagName, F) ==
    LET s1 == GitPush(s, tagName, F)
    IN IF Exit(s1) # 0
       THEN Ret(s1, Err("PushError", "push tag to remote failed"), <<>>)
       ELSE Ret(s1, Nil, <<>>)

\* a CreateTag that takes the local tag back when the push fails
CreateTagRollback(s, tagName, message, F) ==
    LET r1 == CreateLocal(s, tagName, message, F)
    IN IF r1.err # Nil THEN r1
       ELSE LET r2 == CreateRemote(r1, tagName, F)
            IN IF r2.err # Nil
               THEN Ret([local |-> r2.local \ {tagName},
                         remote |-> r2.remote, log |-> r2.log], r2.err, <<>>)
               ELSE Ret(r2, Nil, <<>>)

CreateTag(s, tagName, message, F) ==
    LET r1 == CreateLocal(s, tagName, message, F)
    IN IF r1.err # Nil THEN r1
       ELSE LET r2 == CreateRemote(r1, tagName, F)
            IN IF r2.err # Nil THEN r2 ELSE Ret(r2, Nil, <<>>)

DeleteLocal(s, tagName, F) ==
    LET s1 == GitTagDelete(s, tagName, F)
    IN IF Exit(s1) # 0
       THEN Ret(s1, Err("DeletionError", "delete local tag failed"), <<>>)
       ELSE Ret(s1, Nil, <<>>)

DeleteRemote(s, tagName, F) ==
    LET s1 == GitPushDelete(s, tagName, F)
    IN IF Exit(s1) # 0
       THEN Ret(s1, Err("RemoteDeletionError", "delete remote tag failed"), <<>>)
       ELSE Ret(s1, Nil, <<>>)

\* a DeleteTag that goes on to the remote whatever DeleteLocal returned
DeleteTagBoth(s, tagName, F) ==
    LET r1 == DeleteLocal(s, tagName, F)
        r2 == DeleteRemote(r1, tagName, F)
    IN IF r1.err # Nil THEN Ret(r2, r1.err, <<>>)
       ELSE IF r2.err # Nil THEN r2 ELSE Ret(r2, Nil, <<>>)

DeleteTag(s, tagName, F) ==
    LET r1 == DeleteLocal(s, tagName, F)
    IN IF r1.err # Nil THEN r1
       ELSE LET r2 == DeleteRemote(r1, tagName, F)
            IN IF r2.err # Nil THEN r2 ELSE Ret(r2, Nil, <<>>)

\* a FindOne that lists without the pattern
FindOneAnyTag(s, pattern, F) ==
    LET s1 == GitTagList(s, pattern, F)
        tags == ParseTags(GitTagListOutput(s, <<"*">>))
    IN IF Exit(s1) # 0
       THEN Ret(s1, Err("NotFoundError", "find tag failed"), <<>>)
       ELSE IF NoTags(tags)
       THEN Ret(s1, Err("NotFoundError", "no matching tag found"), <<>>)
       ELSE Ret(s1, Nil, tags[1])

FindOne(s, pattern, F) ==
    LET s1 == GitTagList(s, pattern, F)
        tags == ParseTags(GitTagListOutput(s, pattern))
    IN IF Exit(s1) # 0
       THEN Ret(s1, Err("NotFoundError", "find tag failed"), <<>>)
       ELSE IF NoTags(tags)
       THEN Ret(s1, Err("NotFoundError", "no matching tag found"), <<>>)
       ELSE Ret(s1, Nil, tags[1])

\* a FindMany without the test for the single empty entry
FindManyNoEmptyTest(s, pattern, F) ==
    LET s1 == GitTagList(s, pattern, F)
        tags == ParseTags(GitTagListOutput(s, pattern))
    IN IF Exit(s1) # 0
       THEN Ret(s1, Err("NotFoundError", "find tag failed"), <<>>)
       ELSE Ret(s1, Nil, tags)

FindMany(s, pattern, F) ==
    LET s1 == GitTagList(s, pattern, F)
        tags == ParseTags(GitTagListOutput(s, pattern))
    IN IF Exit(s1) # 0
       THEN Ret(s1, Err("NotFoundError", "find tag failed"), <<>>)
       ELSE IF NoTags(tags)
       THEN Ret(s1, Err("NotFoundError", "no matching tag found"), <<>>)
       ELSE Ret(s1, Nil, tags)

\* a loop that goes on to the later tags after a failed DeleteLocal
RECURSIVE DeleteLocalEachContinue(_, _, _)
DeleteLocalEachContinue(s, tags, F) ==
    IF tags = <<>> THEN Ret(s, Nil, <<>>)
    ELSE LET r == DeleteLocal(s, Head(tags), F)
             rest == DeleteLocalEachContinue(r, Tail(tags), F)
         IN IF r.err # Nil
            THEN Ret(rest, Wrap("delete tag", Head(tags), r.err), <<>>)
            ELSE rest

\* for _, tag := range tags { if err := DeleteLocal(tag); err != nil { return ... } }
RECURSIVE DeleteLocalEach(_, _, _)
DeleteLocalEach(s, tags, F) ==
    IF tags = <<>> THEN Ret(s, Nil, <<>>)
    ELSE LET r == DeleteLocal(s, Head(tags), F)
         IN IF r.err # Nil
            THEN Ret(r, Wrap("delete tag", Head(tags), r.err), <<>>)
            ELSE DeleteLocalEach(r, Tail(tags), F)

\* a loop that deletes each tag with DeleteTag instead of DeleteRemote
RECURSIVE DeleteRemoteEachTag(_, _, _)
DeleteRemoteEachTag(s, tags, F) ==
    IF tags = <<>> THEN Ret(s, Nil, <<>>)
    ELSE LET r == DeleteTag(s, Head(tags), F)
         IN IF r.err # Nil
            THEN Ret(r, Wrap("delete remote tag", Head(tags), r.err), <<>>)
            ELSE DeleteRemoteEachTag(r, Tail(tags), F)

\* for _, tag := range tags { if err := DeleteRemote(tag); err != nil { return ... } }
RECURSIVE DeleteRemoteEach(_, _, _)
DeleteRemoteEach(s, tags, F) ==
    IF tags = <<>> THEN Ret(s, Nil, <<>>)
    ELSE LET r == DeleteRemote(s, Head(tags), F)
         IN IF r.err # Nil
            THEN Ret(r, Wrap("delete remote tag", Head(tags), r.err), <<>>)
            ELSE DeleteRemoteEach(r, Tail(tags), F)

\* a DeleteLocalAll whose loop starts at the second tag of the listing
DeleteLocalAllSkipFirst(s, pattern, F) ==
    LET fm == FindMany(s, pattern, F)
    IN IF fm.err # Nil THEN Ret(fm, Nil, <<>>)
       ELSE DeleteLocalEach(fm, Tail(fm.out), F)

DeleteLocalAll(s, pattern, F) ==
    LET fm == FindMany(s, pattern, F)
    IN IF fm.err # Nil THEN Ret(fm, Nil, <<>>)
       ELSE DeleteLocalEach(fm, fm.out, F)

DeleteRemoteAll(s, pattern, F) ==
    LET fm == FindMany(s, pattern, F)
    IN IF fm.err # Nil THEN Ret(fm, Nil, <<>>)
       ELSE DeleteRemoteEach(fm, fm.out, F)

DeleteAllTags(s, F) ==
    LET r1 == DeleteLocalAll(s, <<"*">>, F)
    IN IF r1.err # Nil THEN r1
       ELSE LET r2 == DeleteRemoteAll(r1, <<"*">>, F)
            IN IF r2.err # Nil THEN r2 ELSE Ret(r2, Nil, <<>>)

\* gittag.go keeps its own DeleteLocalAll and DeleteRemoteAll, which run the
\* listing themselves and report a failed listing process.
GittagDeleteLocalAll(s, pattern, F) ==
    LET s1 == GitTagList(s, pattern, F)
        tags == ParseTags(GitTagListOutput(s, pattern))
    IN IF Exit(s1) # 0
       THEN Ret(s1, Err("ListError", "get tag list failed"), <<>>)
       ELSE IF NoTags(tags) THEN Ret(s1, Nil, <<>>)
       ELSE DeleteLocalEach(s1, tags, F)

GittagDeleteRemoteAll(s, pattern, F) ==
    LET s1 == GitTagList(s, pattern, F)
        tags == ParseTags(GitTagListOutput(s, pattern))
    IN IF Exit(s1) # 0
       THEN Ret(s1, Err("ListError", "get tag list failed"), <<>>)
       ELSE IF NoTags(tags) THEN Ret(s1, Nil, <<>>)
       ELSE DeleteRemoteEach(s1, tags, F)

\* ------------------------------------------------------ state machine

VARIABLES
    local,   \* the names of the local repository's tags
    remote,  \* the names of the tags on the remote "origin"
    last     \* the call just made: function, arguments, repository before it,
             \* invocations, returned error and value, and the successful
             \* CreateLocal / DeleteLocal calls of its argument just before it

vars == <<local, remote, last>>

\* the outside failures of a call that makes at most n invocations
FaultSets(n) == {F \in SUBSET (1 .. n) : Cardinality(F) <= MaxFaults}

\* a bulk call lists once and then deletes each local tag at most once
BulkInvocations == 1 + Cardinality(TagNames)

\* the variadic message arguments: none, or a first message and further ones
MessageLists ==
    {<<>>} \cup {<<m>> \o [i \in 1 .. n |-> MoreMsg] :
                    m \in MessageTexts, n \in 0 .. MaxMessages - 1}

Repo == [local |-> local, remote |-> remote, log |-> <<>>]

Init ==
    /\ local \in SUBSET TagNames
    /\ remote \in SUBSET TagNames
    /\ last = [op |-> "none", arg |-> <<>>, message |-> <<>>,
               pre |-> [local |-> local, remote |-> remote],
               log |-> <<>>, err |-> Nil, out |-> <<>>, after |-> <<>>]

\* the calls a call of argument arg comes right after: a successful
\* CreateLocal(arg), a successful DeleteLocal(arg), or the two in a row
After(arg) ==
    IF last.err # Nil \/ last.arg # arg THEN <<>>
    ELSE IF last.op = "CreateLocal" THEN <<"CreateLocal">>
    ELSE IF last.op = "DeleteLocal" THEN last.after \o <<"DeleteLocal">>
    ELSE <<>>

\* the record of the call op(arg, message) that ran from the current
\* repository and returned r
Outcome(op, arg, message, r) ==
    [op |-> op, arg |-> arg, message |-> message,
     pre |-> [local |-> local, remote |-> remote],
     log |-> r.log, err |-> r.err, out |-> r.out, after |-> After(arg)]

CallCreateLocal ==
    \E t \in TagNames, m \in MessageLists, F \in FaultSets(1) :
        \E r \in {CreateLocal(Repo, t, m, F)} :
            /\ local' = r.local
            /\ remote' = r.remote
            /\ last' = Outcome("CreateLocal", t, m, r)

CallCreateRemote ==
    \E t \in TagNames, F \in FaultSets(1) :
        \E r \in {CreateRemote(Repo, t, F)} :
            /\ local' = r.local
            /\ remote' = r.remote
            /\ last' = Outcome("CreateRemote", t, <<>>, r)

CallCreateTag ==
    \E t \in TagNames, m \in MessageLists, F \in FaultSets(2) :
        \E r \in {CreateTag(Repo, t, m, F)} :
            /\ local' = r.local
            /\ remote' = r.remote
            /\ last' = Outcome("CreateTag", t, m, r)

CallDeleteLocal ==
    \E t \in TagNames, F \in FaultSets(1) :
        \E r \in {DeleteLocal(Repo, t, F)} :
            /\ local' = r.local
            /\ remote' = r.remote
            /\ last' = Outcome("DeleteLocal", t, <<>>, r)

CallDeleteRemote ==
    \E t \in TagNames, F \in FaultSets(1) :
        \E r \in {DeleteRemote(Repo, t, F)} :
            /\ local' = r.local
            /\ remote' = r.remote
            /\ last' = Outcome("DeleteRemote", t, <<>>, r)

CallDeleteTag ==
    \E t \in TagNames, F \in FaultSets(2) :
        \E r \in {DeleteTag(Repo, t, F)} :
            /\ local' = r.local
            /\ remote' = r.remote
            /\ last' = Outcome("DeleteTag", t, <<>>, r)

CallFindOne ==
    \E p \in Patterns, F \in FaultSets(1) :
        \E r \in {FindOne(Repo, p, F)} :
            /\ local' = r.local
            /\ remote' = r.remote
            /\ last' = Outcome("FindOne", p, <<>>, r)

CallFindMany ==
    \E p \in Patterns, F \in FaultSets(1) :
        \E r \in {FindMany(Repo, p, F)} :
            /\ local' = r.local
            /\ remote' = r.remote
            /\ last' = Outcome("FindMany", p, <<>>, r)

CallDeleteLocalAll ==
    \E p \in BulkPatterns, F \in FaultSets(BulkInvocations) :
        \E r \in {DeleteLocalAll(Repo, p, F)} :
            /\ local' = r.local
            /\ remote' = r.remote
            /\ last' = Outcome("DeleteLocalAll", p, <<>>, r)

CallDeleteRemoteAll ==
    \E p \in BulkPatterns, F \in FaultSets(BulkInvocations) :
        \E r \in {DeleteRemoteAll(Repo, p, F)} :
            /\ local' = r.local
            /\ remote' = r.remote
            /\ last' = Outcome("DeleteRemoteAll", p, <<>>, r)

CallDeleteAllTags ==
    \E F \in FaultSets(BulkInvocations + 1) :
        \E r \in {DeleteAllTags(Repo, F)} :
            /\ local' = r.local
            /\ remote' = r.remote
            /\ last' = Outcome("DeleteAllTags", <<"*">>, <<>>, r)

CallGittagDeleteLocalAll ==
    \E p \in BulkPatterns, F \in FaultSets(BulkInvocations) :
        \E r \in {GittagDeleteLocalAll(Repo, p, F)} :
            /\ local' = r.local
            /\ remote' = r.remote
            /\ last' = Outcome("GittagDeleteLocalAll", p, <<>>, r)

CallGittagDeleteRemoteAll ==
    \E p \in BulkPatterns, F \in FaultSets(BulkInvocations) :
        \E r \in {GittagDeleteRemoteAll(Repo, p, F)} :
            /\ local' = r.local
            /\ remote' = r.remote
            /\ last' = Outcome("GittagDeleteRemoteAll", p, <<>>, r)

Next ==
    \/ CallCreateLocal
    \/ CallCreateRemote
    \/ CallCreateTag
    \/ CallDeleteLocal
    \/ CallDeleteRemote
    \/ CallDeleteTag
    \/ CallFindOne
    \/ CallFindMany
    \/ CallDeleteLocalAll
    \/ CallDeleteRemoteAll
    \/ CallDeleteAllTags
    \/ CallGittagDeleteLocalAll
    \/ CallGittagDeleteRemoteAll

Spec == Init /\ [][Next]_vars

\* ------------------------------------------------------------- claims
\* What the formulas read of the call just made.

Ok == last.err = Nil
Pre == [local |-> last.pre.local, remote |-> last.pre.remote, log |-> <<>>]
PreNames == last.pre.local
Names == local
\* the local tags a pattern selected when the call started
Matching(p) == {n \in PreNames : Glob(p, n)}
\* what FindMany(p) returned at that moment, the tool working
Listing(p) == FindMany(Pre, p, {}).out
\* no invocation of the call failed for a reason outside the repository
NoFault == \A i \in 1 .. Len(last.log) : ~last.log[i].fault
\* the listing of a bulk call ran and exited 0
Listed == Len(last.log) >= 1 /\ last.log[1].cmd = "tag -l" /\ last.log[1].exit = 0
\* the invocations after the first
Rest == SubSeq(last.log, 2, Len(last.log))
\* the first n names of a listing, as a set
FirstOf(L, n) == {L[i] : i \in 1 .. n}
LocalUnchanged == local = last.pre.local
RemoteUnchanged == remote = last.pre.remote

BulkLocal == {"DeleteLocalAll", "GittagDeleteLocalAll"}
BulkRemote == {"DeleteRemoteAll", "GittagDeleteRemoteAll"}

\* C1: whenever DeleteAllTags returns no error and every external invocation
\* behaved normally, no tag is left in the local repository and none on the
\* remote.
C1_DeleteAllTagsPurgesBoth ==
    (last.op = "DeleteAllTags" /\ Ok /\ NoFault) => (Names = {} /\ remote = {})

\* C2: CreateTag first runs `tag -a` for the tag; it runs `push origin` for it
\* only when that exited 0; it returns the first failure; and when the tag was
\* created but the push failed it returns the push error, the local tag is
\* still there and the remote is as before.
C2_CreateTagNoRollback ==
    last.op = "CreateTag" =>
        LET log == last.log
        IN /\ Len(log) >= 1
           /\ log[1].cmd = "tag -a" /\ log[1].arg = last.arg
           /\ log[1].exit # 0 =>
                /\ Len(log) = 1
                /\ last.err.kind = "CreationError"
                /\ LocalUnchanged /\ RemoteUnchanged
           /\ log[1].exit = 0 =>
                /\ Len(log) = 2
                /\ log[2].cmd = "push" /\ log[2].arg = last.arg
                /\ last.arg \in Names
                /\ log[2].exit # 0 => (last.err.kind = "PushError" /\ RemoteUnchanged)
                /\ log[2].exit = 0 => Ok

\* C2 witness: a CreateTag whose tag was created and whose push failed.
C2_Witness ==
    /\ last.op = "CreateTag"
    /\ Len(last.log) = 2 /\ last.log[2].exit # 0
    /\ last.err.kind = "PushError"
    /\ last.arg \notin PreNames /\ last.arg \in Names

\* C3: whenever the lookup of a pattern fails (the listing process fails, or
\* nothing matches), a bulk delete by that pattern returns no error and makes
\* no delete invocation, and FindOne and FindMany return NotFoundError.
C3_NoMatchIsSuccess ==
    (Len(last.log) >= 1 /\ last.log[1].cmd = "tag -l"
        /\ (last.log[1].exit # 0 \/ Matching(last.arg) = {})) =>
        /\ last.op \in BulkLocal \cup BulkRemote =>
             (Ok /\ Len(last.log) = 1 /\ LocalUnchanged /\ RemoteUnchanged)
        /\ last.op \in {"FindOne", "FindMany"} => last.err.kind = "NotFoundError"

\* C4: when its listing has matches, DeleteLocalAll runs `tag -d` for the
\* tags of FindMany's listing, in that order, one at a time; it returns no
\* error exactly when every one of them exited 0; at the first one that fails
\* it stops, returns that failure wrapped with the tag's name, and the local
\* tags are those of before less the tags listed ahead of the failing one.
C4_DeleteLocalAllInOrder ==
    (last.op \in BulkLocal /\ Listed /\ Matching(last.arg) # {}) =>
        LET L == Listing(last.arg)
            n == Len(Rest)
        IN /\ 1 <= n /\ n <= Len(L)
           /\ \A i \in 1 .. n : Rest[i].cmd = "tag -d" /\ Rest[i].arg = L[i]
           /\ \A i \in 1 .. n - 1 : Rest[i].exit = 0
           /\ Rest[n].exit = 0 =>
                /\ n = Len(L) /\ Ok
                /\ Names = PreNames \ FirstOf(L, n)
           /\ Rest[n].exit # 0 =>
                /\ last.err = Wrap("delete tag", L[n], Err("DeletionError", ""))
                /\ Names = PreNames \ FirstOf(L, n - 1)

\* C4 witness: a DeleteLocalAll over three matches whose second delete fails:
\* the first tag is gone, the second and third are there, the third was
\* never tried.
C4_Witness ==
    /\ last.op = "DeleteLocalAll"
    /\ Len(Listing(last.arg)) = 3
    /\ Len(last.log) = 3 /\ last.log[3].exit # 0
    /\ last.err.kind = "WrappedBulkError" /\ last.err.tag = Listing(last.arg)[2]
    /\ Names = {Listing(last.arg)[2], Listing(last.arg)[3]}

\* C5: DeleteTag first runs `tag -d` for the tag, which fails when the tag is
\* not a local tag; when it fails nothing else is invoked, the DeleteLocal
\* error is returned and the remote is as before; when it succeeds
\* `push origin --delete` runs for the tag and its failure is returned.
C5_DeleteTagShortCircuits ==
    last.op = "DeleteTag" =>
        LET log == last.log
        IN /\ Len(log) >= 1
           /\ log[1].cmd = "tag -d" /\ log[1].arg = last.arg
           /\ last.arg \notin PreNames => log[1].exit # 0
           /\ log[1].exit # 0 =>
                /\ Len(log) = 1
                /\ last.err.kind = "DeletionError"
                /\ RemoteUnchanged
           /\ log[1].exit = 0 =>
                /\ Len(log) = 2
                /\ log[2].cmd = "push --delete" /\ log[2].arg = last.arg
                /\ log[2].exit # 0 => last.err.kind = "RemoteDeletionError"
                /\ log[2].exit = 0 => Ok

\* C5 witness: a DeleteTag of a tag that is on the remote but not local.
C5_Witness ==
    /\ last.op = "DeleteTag"
    /\ last.arg \notin PreNames /\ last.arg \in last.pre.remote
    /\ last.err.kind = "DeletionError"
    /\ last.arg \in remote

\* C6: a FindOne(t) called right after a successful CreateLocal(t), its
\* listing process not failing, returns t and no error, whatever other local
\* tags there are.
C6_FindOneAfterCreateLocal ==
    (last.op = "FindOne" /\ last.after = <<"CreateLocal">> /\ NoFault) =>
        (Ok /\ last.out = last.arg)

\* C6 witness: a FindOne(t) right after a successful CreateLocal(t), beside
\* two other local tags, has returned t.
C6_Witness ==
    /\ last.op = "FindOne" /\ last.after = <<"CreateLocal">>
    /\ Cardinality(Names) = 3
    /\ Ok /\ last.out = last.arg

\* C7: a DeleteLocal(t) called right after a successful CreateLocal(t)
\* succeeds and t is no longer a local tag, and a FindMany(t) called right
\* after that successful DeleteLocal(t) fails with NotFoundError for want of
\* a match (the processes themselves not failing).
C7_FindManyAfterDeleteLocal ==
    /\ (last.op = "DeleteLocal" /\ last.after = <<"CreateLocal">> /\ NoFault) =>
         (Ok /\ last.arg \notin Names)
    /\ (last.op = "FindMany" /\ last.after = <<"CreateLocal", "DeleteLocal">>
            /\ NoFault) =>
         (/\ last.err = Err("NotFoundError", "no matching tag found")
          /\ last.out = <<>>)

\* C7 witness: a FindMany(t) right after a successful CreateLocal(t) and
\* DeleteLocal(t), other local tags remaining, has failed with NotFoundError.
C7_Witness ==
    /\ last.op = "FindMany"
    /\ last.after = <<"CreateLocal", "DeleteLocal">>
    /\ Cardinality(Names) = 2
    /\ last.err.kind = "NotFoundError" /\ NoFault

====
